---------------------------- MODULE Spec2Model ----------------------------
(***************************************************************************)
(* CHIP-8 core (crate chip8): the CPU engine (cpu.rs), the peripheral      *)
(* store (bus.rs) and the two timer units (delay.rs, beep.rs), driven by a *)
(* host loop (chip8-sdl2, chip8-gtk) that calls Cpu::emulate, Cpu::reset,  *)
(* Delay::update, Beeper::update and writes Bus.keys.                      *)
(*                                                                         *)
(* An index outside an array or a Vec is a Rust panic: the operation stops *)
(* where it is and the session is over (panicked = TRUE).                  *)
(* The log crate's trace!/warn! lines evaluate their arguments only when   *)
(* the host's logger (env_logger, set from RUST_LOG) enables the level.    *)
(* The trace! line of Cpu::execute computes self.pc - 2 on a u16: in a     *)
(* build with overflow checks and with trace enabled it panics when the    *)
(* fetch has wrapped pc below 2; in every other build or configuration     *)
(* the line changes nothing.  Which of the two the session is in is fixed  *)
(* at start (trace_checked).                                               *)
(***************************************************************************)
EXTENDS Integers, Sequences, FiniteSets, TLC

VARIABLES
    pc,          \* Cpu.pc : u16
    i,           \* Cpu.i : u16
    v,           \* Cpu.v : [u8; 16]
    stack,       \* Cpu.stack : Vec<u16>
    key_await,   \* Cpu.key_await : Option<u8>  (None is -1)
    memory,      \* Bus.memory : [u8; 0x1000], as the function from the addresses
                 \*   that hold a nonzero byte to that byte (every other byte is 0)
    vram,        \* Bus.vram : [[bool; 32]; 64], as the set of <<x, y>> that are true
    keys,        \* Bus.keys : [bool; 16]
    delay,       \* Bus.delay : u8
    beep,        \* Bus.beep : u8 (the sound counter)
    beeper_beep, \* Beeper.beep : bool (what is_beeping returns)
    panicked,    \* the process has panicked (index out of bounds)
    last_op,     \* observer: the most recent operation of the host loop
    pre,         \* observer: the machine on entry to the most recent operation
    delay_obs,   \* observer: [n: the value last written to delay (0 at power-on),
                 \*            k: the Delay::update calls since, counted up to n]
    sound_obs,   \* observer: [n: the value last written to beep (0 at power-on),
                 \*            k: the Beeper::update calls since, counted up to n + 1]
    fx55_obs,    \* observer: [i, x, v] on entry to the most recent FX55, x = -1 if none
    rom_data,    \* observer: Rom.data, the program image Bus::new was given
    trace_checked \* the build checks integer overflow and the logger enables trace!

machine == <<pc, i, v, stack, key_await, memory, vram, keys, delay, beep,
             beeper_beep, panicked>>
observers == <<last_op, pre, delay_obs, sound_obs, fx55_obs, rom_data>>
vars == <<machine, observers, trace_checked>>

(***************************************************************************)
(* Program constants                                                       *)
(***************************************************************************)
V_SIZE == 16
STACK_SIZE == 16
SPRITE_ADDR == 0
PC_INIT == 512
DISPLAY_WIDTH == 64
DISPLAY_HEIGHT == 32
KEYPAD_SIZE == 16
MEMORY_SIZE == 4096
None == -1

FONT4X5 ==
    << 240, 144, 144, 144, 240,
        32,  96,  32,  32, 112,
       240,  16, 240, 128, 240,
       240,  16, 240,  16, 240,
       144, 144, 240,  16,  16,
       240, 128, 240,  16, 240,
       240, 128, 240, 144, 240,
       240,  16,  32,  64,  64,
       240, 144, 240, 144, 240,
       240, 144, 240,  16, 240,
       240, 144, 240, 144, 144,
       224, 144, 224, 144, 224,
       240, 128, 128, 128, 240,
       224, 144, 144, 144, 224,
       240, 128, 240, 128, 240,
       240, 128, 240, 128, 128 >>

(***************************************************************************)
(* Bounds of the model                                                     *)
(***************************************************************************)
\* number of keypad keys the host presses and releases
NumKeys == 2
\* call depth the model follows (the Vec itself has no cap)
MaxStack == 17

(***************************************************************************)
(* u8 / u16 arithmetic                                                     *)
(***************************************************************************)
U8 == 256
U16 == 65536

Bit(n, k) == (n \div (2 ^ k)) % 2

BitAnd(a, b) ==
    LET f[k \in 0..16] ==
            IF k = 16 THEN 0
            ELSE (2 ^ k) * (Bit(a, k) * Bit(b, k)) + f[k + 1]
    IN f[0]

BitOr(a, b) ==
    LET f[k \in 0..16] ==
            IF k = 16 THEN 0
            ELSE (2 ^ k) * (IF Bit(a, k) + Bit(b, k) > 0 THEN 1 ELSE 0) + f[k + 1]
    IN f[0]

BitXor(a, b) ==
    LET f[k \in 0..16] ==
            IF k = 16 THEN 0
            ELSE (2 ^ k) * ((Bit(a, k) + Bit(b, k)) % 2) + f[k + 1]
    IN f[0]

\* u8::wrapping_add / u16::wrapping_add
wrapping_add8(a, b) == (a + b) % U8
wrapping_add16(a, b) == (a + b) % U16

(***************************************************************************)
(* Bus (bus.rs): the peripheral store.  The operators take and return the  *)
(* machine record s; a read or write outside an array sets s.panicked.     *)
(***************************************************************************)
InMemory(addr) == addr < MEMORY_SIZE

\* Bus::read_byte, for an address inside the array
read_byte(s, addr) == IF addr \in DOMAIN s.memory THEN s.memory[addr] ELSE 0

\* memory with byte at addr
Stored(mem, addr, byte) ==
    [a \in (DOMAIN mem \ {addr}) \cup (IF byte # 0 THEN {addr} ELSE {}) |->
        IF a = addr THEN byte ELSE mem[a]]

\* Bus::write_byte
write_byte(s, addr, byte) ==
    IF InMemory(addr)
    THEN [s EXCEPT !.memory = Stored(s.memory, addr, byte)]
    ELSE [s EXCEPT !.panicked = TRUE]

InKeypad(key) == key < KEYPAD_SIZE

\* Bus::read_keypad, for an index inside the array
read_keypad(s, key) == s.keys[key]

\* every vram[w][h] false
ClearedScreen == {}

clear_screen_first_column(s) ==
    [s EXCEPT !.vram = {cell \in @ : cell[1] # 0}]

\* Bus::clear_screen
clear_screen(s) == [s EXCEPT !.vram = ClearedScreen]

\* Bus::read_screen
read_screen(s, x, y) == <<x % DISPLAY_WIDTH, y % DISPLAY_HEIGHT>> \in s.vram

write_screen_unwrapped(s, x, y, pixel) ==
    LET cell == <<x, y>>
    IN [s EXCEPT !.vram = IF pixel THEN @ \cup {cell} ELSE @ \ {cell}]

\* Bus::write_screen
write_screen(s, x, y, pixel) ==
    LET cell == <<x % DISPLAY_WIDTH, y % DISPLAY_HEIGHT>>
    IN [s EXCEPT !.vram = IF pixel THEN @ \cup {cell} ELSE @ \ {cell}]

\* Bus::read_timer
read_timer(s) == s.delay

write_timer_both(s, value) == [s EXCEPT !.delay = value, !.beep = value]

\* Bus::write_timer
write_timer(s, value) == [s EXCEPT !.delay = value]

\* Bus::write_sound
write_sound(s, value) == [s EXCEPT !.beep = value]

LoadedByte_short(rom, a) ==
    IF a >= PC_INIT /\ a - PC_INIT < Len(rom) - 1 THEN rom[a - PC_INIT + 1]
    ELSE IF a >= SPRITE_ADDR /\ a - SPRITE_ADDR < Len(FONT4X5)
         THEN FONT4X5[a - SPRITE_ADDR + 1]
    ELSE 0

\* Bus::load_font4x5 followed by the copy of the program image, in Bus::new
LoadedByte(rom, a) ==
    IF a >= PC_INIT /\ a - PC_INIT < Len(rom) THEN rom[a - PC_INIT + 1]
    ELSE IF a >= SPRITE_ADDR /\ a - SPRITE_ADDR < Len(FONT4X5)
         THEN FONT4X5[a - SPRITE_ADDR + 1]
    ELSE 0

\* the array Bus::new fills; the copy loop indexes memory[0x200 + addr] and
\* panics at the first addr with 0x200 + addr = 0x1000
LoadedMemory(rom) ==
    [panicked |-> Len(rom) > MEMORY_SIZE - PC_INIT,
     bytes |-> [a \in {b \in 0..(MEMORY_SIZE - 1) : LoadedByte(rom, b) # 0}
                  |-> LoadedByte(rom, a)]]

(***************************************************************************)
(* Cpu (cpu.rs): the 35 opcode handlers                                    *)
(***************************************************************************)
\* mutant: 0NNN taken as a jump to nnn
opcode_0nnn_jump(s, nnn) == [s EXCEPT !.pc = nnn]

opcode_0nnn(s, nnn) == s

opcode_00e0(s) == clear_screen(s)

\* mutant: the pop unwrapped, a panic on the empty stack
opcode_00ee_unwrap(s) ==
    IF Len(s.stack) > 0
    THEN [s EXCEPT !.pc = s.stack[Len(s.stack)],
                   !.stack = SubSeq(s.stack, 1, Len(s.stack) - 1)]
    ELSE [s EXCEPT !.panicked = TRUE]

opcode_00ee_oldest(s) ==
    IF s.stack # <<>>
    THEN [s EXCEPT !.pc = Head(s.stack), !.stack = Tail(s.stack)]
    ELSE s

opcode_00ee(s) ==
    IF Len(s.stack) > 0
    THEN [s EXCEPT !.pc = s.stack[Len(s.stack)],
                   !.stack = SubSeq(s.stack, 1, Len(s.stack) - 1)]
    ELSE s

opcode_1nnn(s, nnn) == [s EXCEPT !.pc = nnn % 4096]

opcode_2nnn_capped(s, nnn) ==
    IF Len(s.stack) >= STACK_SIZE THEN [s EXCEPT !.pc = nnn]
    ELSE [s EXCEPT !.stack = Append(s.stack, s.pc), !.pc = nnn]

opcode_2nnn(s, nnn) == [s EXCEPT !.stack = Append(s.stack, s.pc), !.pc = nnn]

\* the skip of 3XNN, 4XNN, 5XY0, 9XY0, EX9E and EXA1: pc.wrapping_add(2)
Skip(s) == [s EXCEPT !.pc = wrapping_add16(s.pc, 2)]

opcode_3xnn(s, x, nn) == IF s.v[x] = nn THEN Skip(s) ELSE s

opcode_4xnn(s, x, nn) == IF s.v[x] # nn THEN Skip(s) ELSE s

opcode_5xy0(s, x, y) == IF s.v[x] = s.v[y] THEN Skip(s) ELSE s

\* mutant: 6XNN adding nn to the register
opcode_6xnn_added(s, x, nn) == [s EXCEPT !.v[x] = wrapping_add8(s.v[x], nn)]

opcode_6xnn(s, x, nn) == [s EXCEPT !.v[x] = nn]

opcode_7xnn_carry(s, x, nn) ==
    [s EXCEPT !.v = [[s.v EXCEPT ![x] = wrapping_add8(s.v[x], nn)]
                        EXCEPT ![15] = IF s.v[x] + nn >= U8 THEN 1 ELSE 0]]

opcode_7xnn(s, x, nn) == [s EXCEPT !.v[x] = wrapping_add8(s.v[x], nn)]

opcode_8xy0(s, x, y) == [s EXCEPT !.v[x] = s.v[y]]

opcode_8xy1(s, x, y) == [s EXCEPT !.v[x] = BitOr(s.v[x], s.v[y])]

opcode_8xy2(s, x, y) == [s EXCEPT !.v[x] = BitAnd(s.v[x], s.v[y])]

opcode_8xy3(s, x, y) == [s EXCEPT !.v[x] = BitXor(s.v[x], s.v[y])]

\* the two assignments of the arithmetic handlers, in the code's order:
\* v[x] = res, then v[0xF] = flag
SetResultThenFlag(s, x, res, flag) ==
    [s EXCEPT !.v = [[s.v EXCEPT ![x] = res] EXCEPT ![15] = flag]]

opcode_8xy4_flag_first(s, x, y) ==
    LET sum == s.v[x] + s.v[y]
        flag == IF sum >= U8 THEN 1 ELSE 0
    IN [s EXCEPT !.v = [[s.v EXCEPT ![15] = flag] EXCEPT ![x] = sum % U8]]

opcode_8xy4(s, x, y) ==
    LET sum == s.v[x] + s.v[y]
    IN SetResultThenFlag(s, x, sum % U8, IF sum >= U8 THEN 1 ELSE 0)

opcode_8xy5_carry_polarity(s, x, y) ==
    LET overflow == s.v[x] < s.v[y]
    IN SetResultThenFlag(s, x, (s.v[x] - s.v[y]) % U8, IF overflow THEN 1 ELSE 0)

opcode_8xy5(s, x, y) ==
    LET overflow == s.v[x] < s.v[y]
    IN SetResultThenFlag(s, x, (s.v[x] - s.v[y]) % U8, IF overflow THEN 0 ELSE 1)

\* v[x] = v[y] >> 1, then v[0xF] = v[y] & 1 with v[y] read again
opcode_8xy6(s, x, y) ==
    LET s1 == [s EXCEPT !.v[x] = s.v[y] \div 2]
    IN [s1 EXCEPT !.v[15] = s1.v[y] % 2]

opcode_8xy7_reversed(s, x, y) ==
    LET overflow == s.v[x] < s.v[y]
    IN SetResultThenFlag(s, x, (s.v[x] - s.v[y]) % U8, IF overflow THEN 0 ELSE 1)

opcode_8xy7(s, x, y) ==
    LET overflow == s.v[y] < s.v[x]
    IN SetResultThenFlag(s, x, (s.v[y] - s.v[x]) % U8, IF overflow THEN 0 ELSE 1)

\* v[x] = v[y] << 1, then v[0xF] = (v[y] & 0x80) >> 7 with v[y] read again
opcode_8xye(s, x, y) ==
    LET s1 == [s EXCEPT !.v[x] = (s.v[y] * 2) % U8]
    IN [s1 EXCEPT !.v[15] = s1.v[y] \div 128]

opcode_9xy0(s, x, y) == IF s.v[x] # s.v[y] THEN Skip(s) ELSE s

opcode_annn(s, nnn) == [s EXCEPT !.i = nnn]

opcode_bnnn(s, nnn) == [s EXCEPT !.pc = wrapping_add16(nnn, s.v[0])]

\* rnd is the byte rand::random::<u8>() returns
opcode_cxnn_unmasked(s, x, nn, rnd) == [s EXCEPT !.v[x] = rnd]

opcode_cxnn(s, x, nn, rnd) == [s EXCEPT !.v[x] = BitAnd(rnd, nn)]

\* one pixel of the sprite: column w of the line read for the row drawn at
\* y.  v[x] is read again for every pixel.
DrawPixel(s, x, y, w, sprite_line) ==
    LET px == wrapping_add8(s.v[x], w)
        toggle == BitAnd((sprite_line * (2 ^ w)) % U8, 128) > 0
    IN IF toggle
       THEN LET pixel == read_screen(s, px, y)
                s1 == IF pixel THEN [s EXCEPT !.v[15] = 1] ELSE s
            IN write_screen(s1, px, y, ~pixel)
       ELSE s

\* the loop over w, for the row coordinate y computed ahead of it
RECURSIVE DrawRow(_, _, _, _, _)
DrawRow(s, x, y, w, sprite_line) ==
    IF w >= 8 THEN s
    ELSE DrawRow(DrawPixel(s, x, y, w, sprite_line), x, y, w + 1, sprite_line)

\* the loop over h: the sprite line is read, then v[y] is read once for the row
RECURSIVE DrawRows(_, _, _, _, _)
DrawRows(s, x, y, n, h) ==
    IF h >= n THEN s
    ELSE LET addr == wrapping_add16(s.i, h)
         IN IF ~InMemory(addr) THEN [s EXCEPT !.panicked = TRUE]
            ELSE DrawRows(DrawRow(s, x, wrapping_add8(s.v[y], h), 0, read_byte(s, addr)),
                          x, y, n, h + 1)

opcode_dxyn(s, x, y, n) == DrawRows([s EXCEPT !.v[15] = 0], x, y, n, 0)

opcode_ex9e(s, x) ==
    IF ~InKeypad(s.v[x]) THEN [s EXCEPT !.panicked = TRUE]
    ELSE IF read_keypad(s, s.v[x]) THEN Skip(s) ELSE s

opcode_exa1(s, x) ==
    IF ~InKeypad(s.v[x]) THEN [s EXCEPT !.panicked = TRUE]
    ELSE IF ~read_keypad(s, s.v[x]) THEN Skip(s) ELSE s

opcode_fx07_sound(s, x) == [s EXCEPT !.v[x] = s.beep]

opcode_fx07(s, x) == [s EXCEPT !.v[x] = read_timer(s)]

opcode_fx0a(s, x) == [s EXCEPT !.key_await = x]

opcode_fx15(s, x) == write_timer(s, s.v[x])

opcode_fx18(s, x) == write_sound(s, s.v[x])

opcode_fx1e_flag(s, x) ==
    [s EXCEPT !.i = (s.i + s.v[x]) % 4096,
              !.v[15] = IF s.i + s.v[x] >= 4096 THEN 1 ELSE 0]

opcode_fx1e_unmasked(s, x) == [s EXCEPT !.i = s.i + s.v[x]]

opcode_fx1e(s, x) == [s EXCEPT !.i = (s.i + s.v[x]) % 4096]

opcode_fx29_glyph4(s, x) == [s EXCEPT !.i = (SPRITE_ADDR + s.v[x] * 4) % 4096]

opcode_fx29(s, x) == [s EXCEPT !.i = (SPRITE_ADDR + s.v[x] * 5) % 4096]

\* the three writes in the code's order: i + 2, i + 1, i
opcode_fx33(s, x) ==
    LET value == s.v[x]
        s1 == write_byte(s, s.i + 2, value % 10)
        s2 == IF s1.panicked THEN s1 ELSE write_byte(s1, s.i + 1, (value \div 10) % 10)
    IN IF s2.panicked THEN s2 ELSE write_byte(s2, s.i, value \div 100)

RECURSIVE StoreRegisters(_, _, _)
StoreRegisters(s, x, addr) ==
    IF addr > x THEN s
    ELSE LET s1 == write_byte(s, wrapping_add16(s.i, addr), s.v[addr])
         IN IF s1.panicked THEN s1 ELSE StoreRegisters(s1, x, addr + 1)

opcode_fx55(s, x) ==
    LET s1 == StoreRegisters(s, x, 0)
    IN IF s1.panicked THEN s1 ELSE [s1 EXCEPT !.i = (s.i + x + 1) % 4096]

RECURSIVE LoadRegisters(_, _, _)
LoadRegisters(s, x, addr) ==
    IF addr > x THEN s
    ELSE LET a == wrapping_add16(s.i, addr)
         IN IF ~InMemory(a) THEN [s EXCEPT !.panicked = TRUE]
            ELSE LoadRegisters([s EXCEPT !.v[addr] = read_byte(s, a)], x, addr + 1)

opcode_fx65(s, x) ==
    LET s1 == LoadRegisters(s, x, 0)
    IN IF s1.panicked THEN s1 ELSE [s1 EXCEPT !.i = (s.i + x + 1) % 4096]

(***************************************************************************)
(* Cpu::execute: decode and dispatch, the match arms in the code's order   *)
(***************************************************************************)
Nibble0(opcode) == opcode \div 4096
Nibble1(opcode) == (opcode \div 256) % 16
Nibble2(opcode) == (opcode \div 16) % 16
Nibble3(opcode) == opcode % 16
NNN(opcode) == opcode % 4096
NN(opcode) == opcode % 256

\* the name of the match arm that takes the opcode ("none" for the `_` arm)
Decode(opcode) ==
    LET n0 == Nibble0(opcode)
        n1 == Nibble1(opcode)
        n2 == Nibble2(opcode)
        n3 == Nibble3(opcode)
    IN CASE n0 = 0 /\ n1 = 0 /\ n2 = 14 /\ n3 = 0 -> "00e0"
         [] n0 = 0 /\ n1 = 0 /\ n2 = 14 /\ n3 = 14 -> "00ee"
         [] n0 = 0 /\ ~(n1 = 0 /\ n2 = 14 /\ n3 \in {0, 14}) -> "0nnn"
         [] n0 = 1 -> "1nnn"
         [] n0 = 2 -> "2nnn"
         [] n0 = 3 -> "3xnn"
         [] n0 = 4 -> "4xnn"
         [] n0 = 5 /\ n3 = 0 -> "5xy0"
         [] n0 = 6 -> "6xnn"
         [] n0 = 7 -> "7xnn"
         [] n0 = 8 /\ n3 = 0 -> "8xy0"
         [] n0 = 8 /\ n3 = 1 -> "8xy1"
         [] n0 = 8 /\ n3 = 2 -> "8xy2"
         [] n0 = 8 /\ n3 = 3 -> "8xy3"
         [] n0 = 8 /\ n3 = 4 -> "8xy4"
         [] n0 = 8 /\ n3 = 5 -> "8xy5"
         [] n0 = 8 /\ n3 = 6 -> "8xy6"
         [] n0 = 8 /\ n3 = 7 -> "8xy7"
         [] n0 = 8 /\ n3 = 14 -> "8xye"
         [] n0 = 9 /\ n3 = 0 -> "9xy0"
         [] n0 = 10 -> "annn"
         [] n0 = 11 -> "bnnn"
         [] n0 = 12 -> "cxnn"
         [] n0 = 13 -> "dxyn"
         [] n0 = 14 /\ n2 = 9 /\ n3 = 14 -> "ex9e"
         [] n0 = 14 /\ n2 = 10 /\ n3 = 1 -> "exa1"
         [] n0 = 15 /\ n2 = 0 /\ n3 = 7 -> "fx07"
         [] n0 = 15 /\ n2 = 0 /\ n3 = 10 -> "fx0a"
         [] n0 = 15 /\ n2 = 1 /\ n3 = 5 -> "fx15"
         [] n0 = 15 /\ n2 = 1 /\ n3 = 8 -> "fx18"
         [] n0 = 15 /\ n2 = 1 /\ n3 = 14 -> "fx1e"
         [] n0 = 15 /\ n2 = 2 /\ n3 = 9 -> "fx29"
         [] n0 = 15 /\ n2 = 3 /\ n3 = 3 -> "fx33"
         [] n0 = 15 /\ n2 = 5 /\ n3 = 5 -> "fx55"
         [] n0 = 15 /\ n2 = 6 /\ n3 = 5 -> "fx65"
         [] OTHER -> "none"

\* trace!("${:04x} : {:04x}", self.pc - 2, opcode) with pc already advanced
trace_overflows(s) == trace_checked /\ s.pc - 2 < 0

execute(s, opcode, rnd) ==
    IF trace_overflows(s) THEN [s EXCEPT !.panicked = TRUE] ELSE
    LET arm == Decode(opcode)
        x == Nibble1(opcode)
        y == Nibble2(opcode)
        n == Nibble3(opcode)
        nnn == NNN(opcode)
        nn == NN(opcode)
        \* the match, on the arm decoded once
        dispatch[a \in {arm}] ==
            CASE a = "00e0" -> opcode_00e0(s)
            [] a = "00ee" -> opcode_00ee(s)
            [] a = "0nnn" -> opcode_0nnn(s, nnn)
            [] a = "1nnn" -> opcode_1nnn(s, nnn)
            [] a = "2nnn" -> opcode_2nnn(s, nnn)
            [] a = "3xnn" -> opcode_3xnn(s, x, nn)
            [] a = "4xnn" -> opcode_4xnn(s, x, nn)
            [] a = "5xy0" -> opcode_5xy0(s, x, y)
            [] a = "6xnn" -> opcode_6xnn(s, x, nn)
            [] a = "7xnn" -> opcode_7xnn(s, x, nn)
            [] a = "8xy0" -> opcode_8xy0(s, x, y)
            [] a = "8xy1" -> opcode_8xy1(s, x, y)
            [] a = "8xy2" -> opcode_8xy2(s, x, y)
            [] a = "8xy3" -> opcode_8xy3(s, x, y)
            [] a = "8xy4" -> opcode_8xy4(s, x, y)
            [] a = "8xy5" -> opcode_8xy5(s, x, y)
            [] a = "8xy6" -> opcode_8xy6(s, x, y)
            [] a = "8xy7" -> opcode_8xy7(s, x, y)
            [] a = "8xye" -> opcode_8xye(s, x, y)
            [] a = "9xy0" -> opcode_9xy0(s, x, y)
            [] a = "annn" -> opcode_annn(s, nnn)
            [] a = "bnnn" -> opcode_bnnn(s, nnn)
            [] a = "cxnn" -> opcode_cxnn(s, x, nn, rnd)
            [] a = "dxyn" -> opcode_dxyn(s, x, y, n)
            [] a = "ex9e" -> opcode_ex9e(s, x)
            [] a = "exa1" -> opcode_exa1(s, x)
            [] a = "fx07" -> opcode_fx07(s, x)
            [] a = "fx0a" -> opcode_fx0a(s, x)
            [] a = "fx15" -> opcode_fx15(s, x)
            [] a = "fx18" -> opcode_fx18(s, x)
            [] a = "fx1e" -> opcode_fx1e(s, x)
            [] a = "fx29" -> opcode_fx29(s, x)
            [] a = "fx33" -> opcode_fx33(s, x)
            [] a = "fx55" -> opcode_fx55(s, x)
            [] a = "fx65" -> opcode_fx65(s, x)
            [] OTHER -> s
    IN dispatch[arm]

(***************************************************************************)
(* Cpu::emulate                                                            *)
(***************************************************************************)
\* Cpu::pc_read_byte: the pc after the read
pc_read_byte_unmasked(s) == [s EXCEPT !.pc = s.pc + 1]

pc_read_byte(s) == [s EXCEPT !.pc = (s.pc + 1) % 4096]

\* Cpu::pc_read_word: the opcode two pc_read_byte calls return (pc inside memory)
pc_read_word(s) ==
    LET low == read_byte(s, s.pc)
        high == read_byte(pc_read_byte(s), pc_read_byte(s).pc)
    IN low * 256 + high

\* the keys 0..15 in ascending order, stopping at the first one pressed
PressedKeys(s) == {key \in 0..(KEYPAD_SIZE - 1) : read_keypad(s, key)}
FirstPressed_last(s) == CHOOSE key \in PressedKeys(s) : \A k \in PressedKeys(s) : key >= k

FirstPressed(s) == CHOOSE key \in PressedKeys(s) : \A k \in PressedKeys(s) : key <= k

\* mutant: the key is stored but the latch is not cleared
KeyWaitPoll_latch_kept(s) ==
    IF PressedKeys(s) # {}
    THEN [s EXCEPT !.v[s.key_await] = FirstPressed(s)]
    ELSE s

\* mutant: the poll that never finds a key
KeyWaitPoll_blocks(s) == s

KeyWaitPoll(s) ==
    IF PressedKeys(s) # {}
    THEN [s EXCEPT !.v[s.key_await] = FirstPressed(s), !.key_await = None]
    ELSE s

emulate_no_return(s, rnd) ==
    LET s0 == IF s.key_await # None THEN KeyWaitPoll(s) ELSE s
    IN IF ~InMemory(s0.pc) THEN [s0 EXCEPT !.panicked = TRUE]
       ELSE execute(pc_read_byte(pc_read_byte(s0)), pc_read_word(s0), rnd)

emulate(s, rnd) ==
    IF s.key_await # None THEN KeyWaitPoll(s)
    ELSE IF ~InMemory(s.pc) THEN [s EXCEPT !.panicked = TRUE]
    ELSE execute(pc_read_byte(pc_read_byte(s)), pc_read_word(s), rnd)

\* mutant: reset that leaves the key-wait latch
reset_keeps_latch(s) ==
    [s EXCEPT !.pc = PC_INIT,
              !.i = 0,
              !.v = [x \in 0..(V_SIZE - 1) |-> 0],
              !.stack = <<>>]

\* Cpu::reset
reset(s) ==
    [s EXCEPT !.pc = PC_INIT,
              !.i = 0,
              !.v = [x \in 0..(V_SIZE - 1) |-> 0],
              !.stack = <<>>,
              !.key_await = None]

\* Cpu::new
CpuNew == [pc |-> PC_INIT, i |-> 0, v |-> [x \in 0..(V_SIZE - 1) |-> 0],
           stack |-> <<>>, key_await |-> None]

\* Bus::new; panicked when the copy of the image panics and no Bus is made
BusNew(rom) == [memory |-> LoadedMemory(rom).bytes, vram |-> ClearedScreen,
                keys |-> [k \in 0..(KEYPAD_SIZE - 1) |-> FALSE],
                delay |-> 0, beep |-> 0,
                panicked |-> LoadedMemory(rom).panicked]

(***************************************************************************)
(* Delay::update and Beeper::update                                        *)
(***************************************************************************)
\* mutant: the decrement without the test for zero
delay_update_unguarded(value) == (value - 1) % U8

\* Delay::update: the delay counter after the call
delay_update(value) == IF value > 0 THEN value - 1 ELSE value

\* mutant: the flag taken from the counter after the decrement
beeper_flag_stuck(value) == value >= 0

beeper_flag_after(value) == value > 1

\* Beeper::update: the flag is taken from the counter before the decrement
beeper_flag(value) == value > 0
beeper_update(value) == IF beeper_flag(value) THEN value - 1 ELSE value

\* Beeper::is_beeping
is_beeping == beeper_beep


(***************************************************************************)
(* Program images.  A program is a sequence of <<address, word>>: the word *)
(* is stored big-endian at address and address + 1, every other byte of    *)
(* the image is 0.  The image is what Rom::new_from reads from the file.   *)
(***************************************************************************)
ImageEnd(prog) ==
    LET ends == {prog[j][1] + 2 : j \in 1..Len(prog)}
    IN CHOOSE e \in ends : \A f \in ends : f <= e

Image(prog) ==
    [k \in 1..(ImageEnd(prog) - PC_INIT) |->
        LET a == PC_INIT + k - 1
            hi == {j \in 1..Len(prog) : prog[j][1] = a}
            lo == {j \in 1..Len(prog) : prog[j][1] + 1 = a}
        IN IF hi # {} THEN prog[CHOOSE j \in hi : TRUE][2] \div 256
           ELSE IF lo # {} THEN prog[CHOOSE j \in lo : TRUE][2] % 256
           ELSE 0]

(***************************************************************************)
(* The machine as one record, for the operators above                      *)
(***************************************************************************)
State ==
    [pc |-> pc, i |-> i, v |-> v, stack |-> stack, key_await |-> key_await,
     memory |-> memory, vram |-> vram, keys |-> keys, delay |-> delay,
     beep |-> beep, panicked |-> panicked]

Becomes(s) ==
    /\ pc' = s.pc
    /\ i' = s.i
    /\ v' = s.v
    /\ stack' = s.stack
    /\ key_await' = s.key_await
    /\ memory' = s.memory
    /\ vram' = s.vram
    /\ keys' = s.keys
    /\ delay' = s.delay
    /\ beep' = s.beep
    /\ panicked' = s.panicked

\* the opcode emulate fetches in s, -1 when it fetches none (key-wait, or a pc
\* outside memory)
Fetched(s) ==
    IF s.key_await = None /\ InMemory(s.pc) THEN pc_read_word(s) ELSE -1

\* the match arm emulate runs in s: none when it fetches no opcode, and none
\* when the trace! line ahead of the match panics
Arm(s) ==
    IF Fetched(s) = -1 THEN "nofetch"
    ELSE IF trace_overflows(pc_read_byte(pc_read_byte(s))) THEN "trace"
    ELSE Decode(Fetched(s))

\* the keys the host presses and releases
KeyOrder == <<0, 5, 15, 1>>
HostKeys == {KeyOrder[j] : j \in 1..NumKeys}

\* the bytes rand::random::<u8>() returns
RandomBytes == 0..255

(***************************************************************************)
(* Power-on: Cpu::new, Delay::new, Beeper::new, Bus::new(rom)              *)
(***************************************************************************)
PowerOn(prog) ==
    LET cpu == CpuNew
        bus == BusNew(Image(prog))
    IN /\ rom_data = Image(prog)
       /\ trace_checked \in BOOLEAN
       /\ pc = cpu.pc
       /\ i = cpu.i
       /\ v = cpu.v
       /\ stack = cpu.stack
       /\ key_await = cpu.key_await
       /\ memory = bus.memory
       /\ vram = bus.vram
       /\ keys = bus.keys
       /\ delay = bus.delay
       /\ beep = bus.beep
       /\ beeper_beep = FALSE
       /\ panicked = bus.panicked
       /\ last_op = "new"
       /\ pre = [pc |-> cpu.pc, i |-> cpu.i, v |-> cpu.v, stack |-> cpu.stack,
                 key_await |-> cpu.key_await, memory |-> bus.memory,
                 vram |-> bus.vram, keys |-> bus.keys, delay |-> bus.delay,
                 beep |-> bus.beep, panicked |-> bus.panicked]
       /\ delay_obs = [n |-> 0, k |-> 0]
       /\ sound_obs = [n |-> 0, k |-> 0]
       /\ fx55_obs = [i |-> 0, x |-> -1, v |-> cpu.v]

(***************************************************************************)
(* The operations of the host loop                                         *)
(***************************************************************************)
\* self.cpu.emulate(&mut self.bus)
Emulate ==
    /\ ~panicked
    /\ last_op' = "emulate"
    /\ \E s \in {State} :
       \E arm \in {Arm(s)} :
       \E rnd \in (IF arm = "cxnn" THEN RandomBytes ELSE {0}) :
       \E t \in {emulate(s, rnd)} :
          /\ Len(t.stack) <= MaxStack
          /\ Becomes(t)
          /\ pre' = s
          /\ delay_obs' = IF arm = "fx15" THEN [n |-> t.delay, k |-> 0] ELSE delay_obs
          /\ sound_obs' = IF arm = "fx18" THEN [n |-> t.beep, k |-> 0] ELSE sound_obs
          /\ fx55_obs' =
                IF arm = "fx55" /\ ~t.panicked
                THEN [i |-> s.i, x |-> Nibble1(Fetched(s)), v |-> s.v]
                ELSE IF arm = "fx33" THEN [fx55_obs EXCEPT !.x = -1]
                ELSE fx55_obs
    /\ UNCHANGED <<beeper_beep, rom_data, trace_checked>>

\* self.cpu.reset()
Reset ==
    /\ ~panicked
    /\ Becomes(reset(State))
    /\ pre' = State
    /\ last_op' = "reset"
    /\ UNCHANGED <<beeper_beep, delay_obs, sound_obs, fx55_obs, rom_data, trace_checked>>

\* self.delay.update(&mut self.bus)
DelayUpdate ==
    /\ ~panicked
    /\ delay' = delay_update(delay)
    /\ delay_obs' = [delay_obs EXCEPT !.k = IF @ < delay_obs.n THEN @ + 1 ELSE @]
    /\ pre' = State
    /\ last_op' = "delay_update"
    /\ UNCHANGED <<pc, i, v, stack, key_await, memory, vram, keys, beep,
                   beeper_beep, panicked, sound_obs, fx55_obs, rom_data, trace_checked>>

\* self.beeper.update(&mut self.bus)
BeeperUpdate ==
    /\ ~panicked
    /\ beeper_beep' = beeper_flag(beep)
    /\ beep' = beeper_update(beep)
    /\ sound_obs' = [sound_obs EXCEPT !.k = IF @ <= sound_obs.n THEN @ + 1 ELSE @]
    /\ pre' = State
    /\ last_op' = "beeper_update"
    /\ UNCHANGED <<pc, i, v, stack, key_await, memory, vram, keys, delay,
                   panicked, delay_obs, fx55_obs, rom_data, trace_checked>>

\* self.bus.keys[key] = val
HostKey ==
    /\ ~panicked
    /\ \E key \in HostKeys, val \in BOOLEAN :
          keys' = [keys EXCEPT ![key] = val]
    /\ pre' = State
    /\ last_op' = "key"
    /\ UNCHANGED <<pc, i, v, stack, key_await, memory, vram, delay, beep,
                   beeper_beep, panicked, delay_obs, sound_obs, fx55_obs, rom_data, trace_checked>>

Next == Emulate \/ Reset \/ DelayUpdate \/ BeeperUpdate \/ HostKey

(***************************************************************************)
(* Programs of the control-flow specification                              *)
(***************************************************************************)
\* a taken or untaken skip at 0xFFC; 0xFFE holds a jump to itself
SkipAtTop(prelude, op) ==
    prelude \o << <<PC_INIT + 2 * Len(prelude), 8188>>, <<4092, op>>, <<4094, 8190>> >>

ControlPrograms ==
    { SkipAtTop(<<>>, 12288),                    \* 3000: v0 == 0, taken
      SkipAtTop(<<>>, 12289),                    \* 3001: not taken
      SkipAtTop(<<>>, 16385),                    \* 4001: v0 != 1, taken
      SkipAtTop(<<>>, 20496),                    \* 5010: v0 == v1, taken
      SkipAtTop(<< <<512, 24833>> >>, 36880),    \* 6101; 9010: v0 != v1, taken
      SkipAtTop(<<>>, 57502),                    \* E09E: taken when key 0 is pressed
      SkipAtTop(<<>>, 57505),                    \* E0A1: taken when key 0 is not pressed
      \* 60FF; BFFF: 0xFFF + 0xFF
      << <<512, 24831>>, <<514, 49151>> >>,
      \* 6004; B300: 0x304, which holds a jump to itself
      << <<512, 24580>>, <<514, 45824>>, <<772, 4868>> >>,
      \* F30A; 7301; jump to self
      << <<512, 62218>>, <<514, 29441>>, <<516, 4612>> >>,
      \* 00EE on the empty stack; call 0x208; jump to self; 0x208: F10A; 00EE
      << <<512, 238>>, <<514, 8712>>, <<516, 4612>>, <<520, 61706>>, <<522, 238>> >>,
      \* opcodes no arm matches and 0NNN: 5011 8008 9011 E000 F000 0123 00E1 FF56,
      \* then 501F 8FFF 800D 9FFE E09F E1A0 EFFF F008 F116 F21F F330 F434 F566
      \* 0000 00EF 0FFF, then a jump to itself
      << <<512, 20497>>, <<514, 32776>>, <<516, 36881>>, <<518, 57344>>,
         <<520, 61440>>, <<522, 291>>, <<524, 225>>, <<526, 65366>>,
         <<528, 20511>>, <<530, 36863>>, <<532, 32781>>, <<534, 40958>>,
         <<536, 57503>>, <<538, 57760>>, <<540, 61439>>, <<542, 61448>>,
         <<544, 61718>>, <<546, 61983>>, <<548, 62256>>, <<550, 62516>>,
         <<552, 62822>>, <<554, 0>>, <<556, 239>>, <<558, 4095>>,
         <<560, 4656>> >> }

Init == \E prog \in ControlPrograms : PowerOn(prog)

Spec == Init /\ [][Next]_vars

(***************************************************************************)
(* Programs of the memory specification: i at the top of the address space *)
(***************************************************************************)
\* 6000+v0 .. 6300+v3; A base; Fx55; 60FF 61FF 62FF 63FF; A base; Fx65; jump to self
RoundTrip(base, x) ==
    << <<512, 24593>>, <<514, 24866>>, <<516, 25139>>, <<518, 25412>>,
       <<520, 40960 + base>>, <<522, 61525 + 256 * x>>,
       <<524, 24831>>, <<526, 25087>>, <<528, 25343>>, <<530, 25599>>,
       <<532, 40960 + base>>, <<534, 61541 + 256 * x>>,
       <<536, 4632>> >>

MemoryPrograms ==
    { RoundTrip(768, 0), RoundTrip(768, 3), RoundTrip(4092, 3), RoundTrip(4094, 3),
      RoundTrip(4095, 0), RoundTrip(4095, 1),
      \* AFFE; 607B; F033: the ones digit goes to 0xFFE + 2
      << <<512, 45054>>, <<514, 24699>>, <<516, 61491>>, <<518, 4614>> >>,
      \* AFFD; 60FF; F033; jump to self
      << <<512, 45053>>, <<514, 24831>>, <<516, 61491>>, <<518, 4614>> >>,
      \* AFFF; D012: the second sprite row is read at 0xFFF + 1
      << <<512, 45055>>, <<514, 53266>>, <<516, 4612>> >>,
      \* AFFF; D011; jump to self
      << <<512, 45055>>, <<514, 53265>>, <<516, 4612>> >> }

InitMemory == \E prog \in MemoryPrograms : PowerOn(prog)

SpecMemory == InitMemory /\ [][Next]_vars

(***************************************************************************)
(* Programs of the drawing specification                                   *)
(***************************************************************************)
\* 6x vx; 6y vy; A300; Dxyn; Dxyn; jump to self; 0x300: the sprite's first rows
DrawTwice(x, y, vx, vy, n, rows) ==
    << <<512, 24576 + 256 * x + vx>>, <<514, 24576 + 256 * y + vy>>,
       <<516, 41728>>,
       <<518, 53248 + 256 * x + 16 * y + n>>,
       <<520, 53248 + 256 * x + 16 * y + n>>,
       <<522, 4618>>, <<768, rows>> >>

DrawPrograms ==
    { DrawTwice(0, 1, 0, 0, 1, 32768),      \* one pixel at (0, 0)
      DrawTwice(0, 1, 64, 32, 1, 32768),    \* one pixel at (64, 32)
      DrawTwice(0, 1, 64, 0, 1, 32768),     \* one pixel at (64, 0)
      DrawTwice(0, 1, 0, 32, 1, 32768),     \* one pixel at (0, 32)
      DrawTwice(0, 1, 62, 31, 2, 50175),    \* C3 FF at (62, 31): wraps on both axes
      DrawTwice(2, 3, 255, 255, 2, 33153),  \* 81 81 at (255, 255)
      DrawTwice(0, 1, 5, 5, 0, 65535),      \* N = 0
      DrawTwice(0, 1, 5, 5, 1, 0),          \* a row with no bit set
      DrawTwice(15, 1, 0, 0, 1, 49152),     \* x is VF, row C0
      DrawTwice(0, 15, 0, 0, 2, 32896) }    \* y is VF, rows 80 80

InitDraw == \E prog \in DrawPrograms : PowerOn(prog)

SpecDraw == InitDraw /\ [][Next]_vars

\* the programs that name VF as a coordinate register of DXYN
DrawVFPrograms ==
    { DrawTwice(15, 1, 0, 0, 1, 49152),     \* x is VF, row C0
      DrawTwice(0, 15, 0, 0, 2, 32896),     \* y is VF, rows 80 80
      DrawTwice(15, 15, 9, 9, 2, 49344) }   \* x and y are VF, rows C0 C0

InitDrawVF == \E prog \in DrawVFPrograms : PowerOn(prog)

SpecDrawVF == InitDrawVF /\ [][Next]_vars

(***************************************************************************)
(* Programs of the timer specification                                     *)
(***************************************************************************)
\* 60nn; F015; F018; F107; jump to self
SetTimers(nn) ==
    << <<512, 24576 + nn>>, <<514, 61461>>, <<516, 61464>>, <<518, 61703>>,
       <<520, 4616>> >>

TimerPrograms == { SetTimers(0), SetTimers(1), SetTimers(3) }

InitTimers == \E prog \in TimerPrograms : PowerOn(prog)

SpecTimers == InitTimers /\ [][Next]_vars

(***************************************************************************)
(* Programs of the arithmetic specification                                *)
(***************************************************************************)
\* 6x a; 6y b; 8xyk; jump to self (with x = y both registers hold b)
Alu(k, x, y, a, b) ==
    << <<512, 24576 + 256 * x + a>>, <<514, 24576 + 256 * y + b>>,
       <<516, 32768 + 256 * x + 16 * y + k>>, <<518, 4614>> >>

\* 6F01; 6x a; 7x nn; jump to self
AddImmediate(x, a, nn) ==
    << <<512, 28417>>, <<514, 24576 + 256 * x + a>>,
       <<516, 28672 + 256 * x + nn>>, <<518, 4614>> >>

\* the register pairs: distinct, equal, VF as x, VF as y, VF as both
AluRegisters == { <<0, 1>>, <<1, 1>>, <<15, 1>>, <<1, 15>>, <<15, 15>> }

\* the operand pairs: <<0x55, 0xAF>>, <<0x10, 0x05>>, <<0x05, 0x0A>>, <<0x0A, 0x05>>,
\* equal operands, 0xFF + 1, and values with the top and the bottom bit set
AluOperands ==
    { <<85, 175>>, <<16, 5>>, <<5, 10>>, <<10, 5>>, <<7, 7>>, <<255, 1>>,
      <<2, 129>>, <<0, 128>> }

AluPrograms ==
    { Alu(k, r[1], r[2], o[1], o[2]) :
        k \in {4, 5, 6, 7, 14}, r \in AluRegisters, o \in AluOperands }
    \cup { AddImmediate(x, o[1], o[2]) : x \in {0, 15}, o \in {<<16, 5>>, <<255, 1>>, <<200, 100>>, <<9, 0>>} }

InitAlu == \E prog \in AluPrograms : PowerOn(prog)

SpecAlu == InitAlu /\ [][Next]_vars

(***************************************************************************)
(* Programs of the step specification: every opcode arm                    *)
(***************************************************************************)
\* Cxnn; jump to self
Random(x, nn) == << <<512, 49152 + 256 * x + nn>>, <<514, 4610>> >>

RandomPrograms == { Random(0, 165), Random(1, 15), Random(2, 0), Random(15, 60) }

\* 00E0; 6105; 620A; 8120; 8121; 8122; 8123; F11E; F229; A300; F265; F007;
\* jump to self
OtherArms ==
    << <<512, 224>>, <<514, 24837>>, <<516, 25098>>, <<518, 33056>>,
       <<520, 33057>>, <<522, 33058>>, <<524, 33059>>, <<526, 61726>>,
       <<528, 61993>>, <<530, 41728>>, <<532, 62053>>, <<534, 61447>>,
       <<536, 4632>> >>

\* AFFF; 60FF; F01E; AFFF; F055; AFFF; F065; F029; jump to self
IndexAtTop ==
    << <<512, 45055>>, <<514, 24831>>, <<516, 61470>>, <<518, 45055>>,
       <<520, 61525>>, <<522, 45055>>, <<524, 61541>>, <<526, 61481>>,
       <<528, 4624>> >>

\* A000; D005; 00E0; jump to self: the glyph 0 drawn at (0, 0), then cleared
ClearAfterDraw ==
    << <<512, 40960>>, <<514, 53253>>, <<516, 224>>, <<518, 4614>> >>

\* an image of 0xE01 bytes, one more than fits above 0x200: jump to self, and
\* 01 01 at 0xFFF and 0x1000
ImageTooLong == << <<512, 4608>>, <<4095, 257>> >>

StepPrograms ==
    RandomPrograms \cup {OtherArms, IndexAtTop, ClearAfterDraw, ImageTooLong} \cup ControlPrograms \cup MemoryPrograms
        \cup DrawPrograms \cup TimerPrograms
        \cup { Alu(k, 1, 1, 2, 129) : k \in {4, 5, 6, 7, 14} }

InitStep == \E prog \in StepPrograms : PowerOn(prog)

SpecStep == InitStep /\ [][Next]_vars

(***************************************************************************)
(* Programs of the keypad specification                                    *)
(***************************************************************************)
\* 60nn; op (E09E or E0A1); jump to self; jump to self
KeyTest(nn, op) ==
    << <<512, 24576 + nn>>, <<514, op>>, <<516, 4612>>, <<518, 4614>> >>

\* 6xFF; Fx0A; 7x01; A123; jump to self
KeyWait(x) ==
    << <<512, 24831 + 256 * x>>, <<514, 61450 + 256 * x>>, <<516, 28673 + 256 * x>>,
       <<518, 41251>>, <<520, 4616>> >>

KeypadPrograms ==
    { KeyTest(nn, op) : nn \in {0, 5, 15, 16, 255}, op \in {57502, 57505} }
    \cup { KeyWait(3), KeyWait(15) }

InitKeypad == \E prog \in KeypadPrograms : PowerOn(prog)

SpecKeypad == InitKeypad /\ [][Next]_vars

(***************************************************************************)
(* Programs of the call specification                                      *)
(***************************************************************************)
CallPrograms ==
    { \* 0x200: 2206; 1202 (jump to self); 0x206: 220A; 00EE; 0x20A: 220E; 00EE;
      \* 0x20E: 00EE: three nested calls, three returns
      << <<512, 8710>>, <<514, 4610>>, <<518, 8714>>, <<520, 238>>,
         <<522, 8718>>, <<524, 238>>, <<526, 238>> >>,
      \* 1FFE; 0xFFE: 2300; 0x300: 1300 (jump to self): a call in the last two bytes
      << <<512, 8190>>, <<4094, 8960>>, <<768, 4864>> >>,
      \* 6000; 2206; 1204 (jump to self); 0x206: 7001; 3011; 2206; 00EE:
      \* 17 nested calls, then 17 returns
      << <<512, 24576>>, <<514, 8710>>, <<516, 4612>>, <<518, 28673>>,
         <<520, 12305>>, <<522, 8710>>, <<524, 238>> >>,
      \* 2200: a call of itself, without end
      << <<512, 8704>> >> }

InitCalls == \E prog \in CallPrograms : PowerOn(prog)

SpecCalls == InitCalls /\ [][Next]_vars

(***************************************************************************)
(* Programs of the fetch specification: an instruction in the last bytes   *)
(***************************************************************************)
\* 7101; 3101; 1204 (jump to self); jump to top; 0xFFE: word.  The first pass
\* jumps to the top of memory, the second (v1 = 2) stops at 0x204
FetchAtTop(top, word) ==
    << <<512, 28929>>, <<514, 12545>>, <<516, 4612>>, <<518, 4096 + top>>,
       <<4094, word>> >>

FetchPrograms ==
    { FetchAtTop(4095, 96),       \* bytes 00 60: at 0xFFF the opcode is 60 and memory[0]
      FetchAtTop(4094, 24581) }   \* 6005 at 0xFFE

InitFetch == \E prog \in FetchPrograms : PowerOn(prog)

SpecFetch == InitFetch /\ [][Next]_vars

(***************************************************************************)
(* Programs of the index specification: FX1E, FX29, FX33                   *)
(***************************************************************************)
\* 6F01; Annn; 6x vv; Fx1E; jump to self
AddIndex(nnn, x, vv) ==
    << <<512, 28417>>, <<514, 40960 + nnn>>, <<516, 24576 + 256 * x + vv>>,
       <<518, 61470 + 256 * x>>, <<520, 4616>> >>

\* 6x d; Fx29; jump to self
Glyph(x, d) ==
    << <<512, 24576 + 256 * x + d>>, <<514, 61481 + 256 * x>>, <<516, 4612>> >>

\* Annn; 6x vv; Fx33; jump to self
Bcd(nnn, x, vv) ==
    << <<512, 40960 + nnn>>, <<514, 24576 + 256 * x + vv>>,
       <<516, 61491 + 256 * x>>, <<518, 4614>> >>

IndexPrograms ==
    { AddIndex(nnn, x, vv) : nnn \in {0, 291, 4095}, x \in {0, 15}, vv \in {0, 1, 255} }
    \cup { Glyph(x, d) : x \in {0, 5}, d \in (0..15) \cup {16, 51, 255} }
    \cup { Bcd(nnn, x, vv) : nnn \in {768, 4093}, x \in {0, 15},
                             vv \in {0, 7, 10, 99, 100, 123, 200, 255} }

InitIndex == \E prog \in IndexPrograms : PowerOn(prog)

SpecIndex == InitIndex /\ [][Next]_vars

(***************************************************************************)
(* Programs of the delay-read specification                                *)
(***************************************************************************)
\* 61nn; F115; F207; jump to the F207
ReadDelay(nn) ==
    << <<512, 24832 + nn>>, <<514, 61717>>, <<516, 61959>>, <<518, 4612>> >>

ReadDelayPrograms == { ReadDelay(0), ReadDelay(1), ReadDelay(3) }

InitReadDelay == \E prog \in ReadDelayPrograms : PowerOn(prog)

SpecReadDelay == InitReadDelay /\ [][Next]_vars

(***************************************************************************)
(* The key-wait specification with the host loop's scheduling: every       *)
(* iteration of SDL2Frontend::run calls emulate and, at 60 Hz, both        *)
(* updates, so each keeps happening; key events are the user's             *)
(***************************************************************************)
\* 6003; F015; F018; F30A; 7301; jump to self
TimedKeyWait ==
    << <<512, 24579>>, <<514, 61461>>, <<516, 61464>>, <<518, 62218>>,
       <<520, 29441>>, <<522, 4618>> >>

InitKeyWait == PowerOn(TimedKeyWait)

SpecKeyWait ==
    /\ InitKeyWait
    /\ [][Next]_vars
    /\ WF_vars(Emulate)
    /\ WF_vars(DelayUpdate)
    /\ WF_vars(BeeperUpdate)

(***************************************************************************)
(* Properties                                                              *)
(***************************************************************************)
\* the arms that set pc themselves
ControlArms == {"00ee", "1nnn", "2nnn", "3xnn", "4xnn", "5xy0", "9xy0", "bnnn",
                "ex9e", "exa1"}

\* the addresses the handler run by emulate in s passes to read_byte /
\* write_byte, in the handler's order; the call with the first address outside
\* memory panics and none is passed after it
AddressesPassed(s) ==
    LET arm == Arm(s)
        x == Nibble1(Fetched(s))
        n == Nibble3(Fetched(s))
        calls == CASE arm = "dxyn" -> [h \in 1..n |-> wrapping_add16(s.i, h - 1)]
                   [] arm = "fx33" -> <<s.i + 2, s.i + 1, s.i>>
                   [] arm \in {"fx55", "fx65"} ->
                         [addr \in 1..(x + 1) |-> wrapping_add16(s.i, addr - 1)]
                   [] OTHER -> <<>>
    IN {calls[j] : j \in {k \in 1..Len(calls) : \A e \in 1..(k - 1) : InMemory(calls[e])}}

\* C1: in every reachable state pc is a valid fetch address (pc < 0x1000)
C1_PcIsFetchAddress == InMemory(pc)

\* C2: FX0A sets the latch for x; a step in key-wait with no key pressed leaves
\* pc (and the latch and the registers) unchanged; a step in key-wait with a key
\* pressed stores a pressed key in v[x], clears the latch and leaves pc
\* unchanged; the step after that fetches an opcode, and pc advances by 2
\* unless the opcode is a jump, call, return or taken skip
C2_KeyWait ==
    [][ last_op' = "emulate" =>
          /\ (Arm(State) = "fx0a" =>
                /\ key_await' = Nibble1(Fetched(State))
                /\ pc' = (pc + 2) % 4096)
          /\ (key_await # None /\ PressedKeys(State) = {} =>
                pc' = pc /\ key_await' = key_await /\ v' = v)
          /\ (key_await # None /\ PressedKeys(State) # {} =>
                /\ v'[key_await] \in PressedKeys(State)
                /\ key_await' = None
                /\ pc' = pc)
          /\ (last_op = "emulate" /\ pre.key_await # None /\ key_await = None =>
                /\ Fetched(State) # -1
                /\ (Arm(State) \notin ControlArms => pc' = (pc + 2) % 4096))
      ]_vars

\* C2 witness: F30A, the wait, key 5 stored in v3, then 7301 executed at 0x202
C2_Witness ==
    /\ last_op = "emulate"
    /\ pre.key_await = None
    /\ Fetched(pre) = 29441
    /\ pre.v[3] = 5
    /\ v[3] = 6
    /\ pc = 516

\* C3: every address the CPU passes to read_byte or write_byte in DXYN, FX33,
\* FX55 and FX65 is below 0x1000, so the access does not fail
C3_AddressesMasked ==
    (last_op = "emulate" /\ Arm(pre) \in {"dxyn", "fx33", "fx55", "fx65"}) =>
        /\ \A a \in AddressesPassed(pre) : InMemory(a)
        /\ ~panicked

\* C4: DXYN executed twice in a row with the same operands, the first time on
\* a cleared screen: v[F] = 0 after the first, and after the second the screen
\* is cleared again and v[F] = 1
C4_DoubleDrawRestores ==
    [][ ( /\ last_op = "emulate"
          /\ Arm(pre) = "dxyn"
          /\ pre.vram = ClearedScreen
          /\ last_op' = "emulate"
          /\ Fetched(State) = Fetched(pre) )
        => ( /\ v[15] = 0
             /\ ~panicked'
             /\ vram' = ClearedScreen
             /\ v'[15] = 1 )
      ]_vars

\* C5: FX55 at base i completes and leaves i = (base + x + 1) & 0xFFF; FX65 at
\* the same base, with the same x, completes, restores v[0..=x] to their values
\* before the FX55 and leaves i = (base + x + 1) & 0xFFF
C5_StoreLoadRoundTrip ==
    last_op = "emulate" =>
        LET x == Nibble1(Fetched(pre))
        IN /\ (Arm(pre) = "fx55" =>
                 ~panicked /\ i = (pre.i + x + 1) % 4096)
           /\ (Arm(pre) = "fx65" /\ fx55_obs.x = x /\ fx55_obs.i = pre.i =>
                 /\ ~panicked
                 /\ \A k \in 0..x : v[k] = fx55_obs.v[k]
                 /\ i = (pre.i + x + 1) % 4096)

Max(a, b) == IF a >= b THEN a ELSE b

\* C6: with n the value last written to a counter (0 at power-on) and k the
\* ticks since, the delay counter is max(n - k, 0) and so is the sound counter:
\* n - k after k <= n ticks, 0 after n ticks and after every later tick
C6_TimersCountDown ==
    /\ delay = delay_obs.n - delay_obs.k
    /\ beep = Max(sound_obs.n - sound_obs.k, 0)

\* C6 witness: both counters were set to 3; the delay unit has ticked at 0
\* after its 3 ticks, the sound unit has ticked 4 times
C6_Witness ==
    /\ last_op = "delay_update"
    /\ delay_obs = [n |-> 3, k |-> 3]
    /\ pre.delay = 0
    /\ delay = 0
    /\ sound_obs = [n |-> 3, k |-> 4]
    /\ beep = 0

\* C7 as stated: is_beeping is true exactly when the sound counter is nonzero
C7_BeepIffCounterNonzero == is_beeping = (beep > 0)

\* C7 amended: is_beeping is false until the first sound tick; a sound tick
\* sets it to "the sound counter was nonzero at the start of this tick"; no
\* other operation (FX18 included) changes it
C7_BeepLatchedAtTick ==
    /\ (last_op = "new" => ~is_beeping)
    /\ [][ IF last_op' = "beeper_update"
           THEN is_beeping' = (beep > 0)
           ELSE is_beeping' = is_beeping ]_vars

\* C7 witness: the tick that took the sound counter from 1 to 0 leaves
\* is_beeping true
C7_Witness ==
    /\ last_op = "beeper_update"
    /\ pre.beep = 1
    /\ beep = 0
    /\ is_beeping

\* C8: 00EE on the empty stack changes nothing after the fetch: pc is the
\* address after the 00EE, everything else is as before the step
C8_ReturnOnEmptyStack ==
    (last_op = "emulate" /\ Arm(pre) = "00ee" /\ pre.stack = <<>>) =>
        State = [pre EXCEPT !.pc = (pre.pc + 2) % 4096]

C8_Witness ==
    /\ last_op = "emulate"
    /\ Arm(pre) = "00ee"
    /\ pre.stack = <<>>
    /\ pc = 514

\* C9: a step whose opcode matches no arm, or is a 0NNN other than 00E0 and
\* 00EE, changes nothing but pc, which advances by 2 modulo 0x1000; 5XY1, 8XY8,
\* 9XY1, EX00 and FX00 match no arm
C9_UnmatchedIsNoOp ==
    /\ \A op \in {20497, 32776, 36881, 57344, 61440} : Decode(op) = "none"
    /\ (last_op = "emulate" /\ Arm(pre) \in {"none", "0nnn"}) =>
           State = [pre EXCEPT !.pc = (pre.pc + 2) % 4096]

\* C9 witness: 0123 (a 0NNN) executed at 0x20A
C9_Witness ==
    /\ last_op = "emulate"
    /\ Fetched(pre) = 291
    /\ Arm(pre) = "0nnn"
    /\ pc = 524

\* C10: reset gives the CPU its power-on state and leaves memory, video,
\* keypad and both counters as they were
C10_Reset ==
    last_op = "reset" =>
        /\ [pc |-> pc, i |-> i, v |-> v, stack |-> stack, key_await |-> key_await] = CpuNew
        /\ memory = pre.memory
        /\ vram = pre.vram
        /\ keys = pre.keys
        /\ delay = pre.delay
        /\ beep = pre.beep
        /\ ~panicked

\* C10 witness: a reset made in key-wait inside a subroutine
C10_Witness ==
    /\ last_op = "reset"
    /\ pre.key_await # None
    /\ Len(pre.stack) > 0

\* the operands of the opcode emulate fetched in s
OpX(s) == Nibble1(Fetched(s))
OpY(s) == Nibble2(Fetched(s))

\* C11: after 8XY4, v[x] = (old v[x] + old v[y]) mod 256 when x is not 0xF, and
\* v[F] = 1 if old v[x] + old v[y] > 255, else 0, for all registers x, y
C11_AddWithCarry ==
    (last_op = "emulate" /\ Arm(pre) = "8xy4") =>
        LET sum == pre.v[OpX(pre)] + pre.v[OpY(pre)]
        IN /\ (OpX(pre) # 15 => v[OpX(pre)] = sum % 256)
           /\ v[15] = (IF sum > 255 THEN 1 ELSE 0)

\* 0x55 + 0xAF has given v[x] = 0x04 with v[F] = 1
C11_Witness ==
    /\ last_op = "emulate" /\ Arm(pre) = "8xy4"
    /\ OpX(pre) = 0 /\ pre.v[0] = 85 /\ pre.v[OpY(pre)] = 175
    /\ v[0] = 4 /\ v[15] = 1

\* C12: after 8XY5, v[x] = (old v[x] - old v[y]) mod 256 when x is not 0xF, and
\* v[F] = 0 if old v[x] < old v[y] (borrow), else 1, for all registers x, y
C12_SubWithBorrow ==
    (last_op = "emulate" /\ Arm(pre) = "8xy5") =>
        LET a == pre.v[OpX(pre)]
            b == pre.v[OpY(pre)]
        IN /\ (OpX(pre) # 15 => v[OpX(pre)] = (a - b) % 256)
           /\ v[15] = (IF a < b THEN 0 ELSE 1)

\* 0x05 - 0x0A has given v[x] = 0xFB with v[F] = 0
C12_Witness ==
    /\ last_op = "emulate" /\ Arm(pre) = "8xy5"
    /\ OpX(pre) = 0 /\ pre.v[0] = 5 /\ pre.v[OpY(pre)] = 10
    /\ v[0] = 251 /\ v[15] = 0

\* C13 as stated: 7XNN leaves v[x] = (old v[x] + NN) mod 256 and leaves v[0xF]
\* as it was, for every register x
C13_AddImmediateKeepsVF ==
    (last_op = "emulate" /\ Arm(pre) = "7xnn") =>
        /\ v[OpX(pre)] = (pre.v[OpX(pre)] + NN(Fetched(pre))) % 256
        /\ v[15] = pre.v[15]

\* C13 amended: 7XNN leaves v[x] = (old v[x] + NN) mod 256, a value in 0..255,
\* and leaves v[0xF] as it was when x is not 0xF, overflow or not (with x = 0xF
\* the sum is what v[0xF] holds); no other register changes
C13_AddImmediate ==
    (last_op = "emulate" /\ Arm(pre) = "7xnn") =>
        /\ v[OpX(pre)] = (pre.v[OpX(pre)] + NN(Fetched(pre))) % 256
        /\ v[OpX(pre)] \in 0..255
        /\ \A r \in 0..15 : r # OpX(pre) => v[r] = pre.v[r]

\* 0xFF + 1 in v0 has wrapped to 0 and v[0xF] still holds its 1
C13_Witness ==
    /\ last_op = "emulate" /\ Arm(pre) = "7xnn"
    /\ OpX(pre) = 0 /\ pre.v[0] = 255 /\ NN(Fetched(pre)) = 1
    /\ v[0] = 0 /\ pre.v[15] = 1 /\ v[15] = 1

\* the coordinates handed to the screen operations
ScreenXs == {0, 1, 63, 64, 65, 127, 128, 255}
ScreenYs == {0, 1, 31, 32, 33, 63, 64, 255}

\* the cells a DXYN fetched in s toggles: one per set bit of its sprite rows
SpriteCells(s) ==
    LET x == OpX(s)
        y == OpY(s)
        n == Nibble3(Fetched(s))
    IN { <<(s.v[x] + w) % 64, (s.v[y] + h) % 32>> :
           <<h, w>> \in { hw \in (0..(n - 1)) \X (0..7) :
                            Bit(read_byte(s, s.i + hw[1]), 7 - hw[2]) = 1 } }

\* C14: pixel coordinates wrap on both axes: write_screen(x, y, value) sets the
\* cell (x mod 64, y mod 32) to value and changes no other cell, read_screen(x, y)
\* returns that cell, and a DXYN step toggles exactly the wrapped cells of its
\* sprite
C14_ScreenWraps ==
    /\ \A x \in ScreenXs, y \in ScreenYs :
          /\ read_screen(State, x, y) = (<<x % 64, y % 32>> \in vram)
          /\ write_screen(State, x, y, TRUE).vram = vram \cup {<<x % 64, y % 32>>}
          /\ write_screen(State, x, y, FALSE).vram = vram \ {<<x % 64, y % 32>>}
          /\ read_screen(write_screen(State, x, y, TRUE), x % 64, y % 32)
          /\ ~read_screen(write_screen(State, x, y, FALSE), x % 64, y % 32)
    /\ (last_op = "emulate" /\ Arm(pre) = "dxyn" /\ ~panicked
          /\ OpX(pre) # 15 /\ OpY(pre) # 15) =>
          vram = (pre.vram \ SpriteCells(pre)) \cup (SpriteCells(pre) \ pre.vram)

\* a pixel drawn at (64, 32) on the cleared screen has lit the cell (0, 0)
C14_Witness ==
    /\ last_op = "emulate" /\ Arm(pre) = "dxyn"
    /\ pre.v[OpX(pre)] = 64 /\ pre.v[OpY(pre)] = 32
    /\ pre.vram = {} /\ vram = {<<0, 0>>}

(***************************************************************************)
(* What a step makes of the machine s, field by field, written from the    *)
(* handlers' effects and not with them: the function that the machine      *)
(* after a step is of the machine before it                                *)
(***************************************************************************)
\* the address after the opcode fetched in s
AfterFetch(s) == (s.pc + 2) % 4096

\* the step fails: it fetches outside memory, its trace line overflows, it
\* indexes the keypad at 16 or more, or it passes an address outside memory
StepFails(s) ==
    CASE Arm(s) = "nofetch" -> s.key_await = None
      [] Arm(s) = "trace" -> TRUE
      [] Arm(s) \in {"ex9e", "exa1"} -> s.v[OpX(s)] > 15
      [] Arm(s) \in {"dxyn", "fx33", "fx55", "fx65"} ->
            \E a \in AddressesPassed(s) : a > 4095
      [] OTHER -> FALSE

\* the lowest pressed key
LowestKey(s) == CHOOSE k \in 0..15 : s.keys[k] /\ \A j \in 0..(k - 1) : ~s.keys[j]

\* a step in key-wait that finds a key pressed
KeyFound(s) == s.key_await # None /\ \E k \in 0..15 : s.keys[k]

PcAfter(s) ==
    LET x == s.v[OpX(s)]
        y == s.v[OpY(s)]
        nn == NN(Fetched(s))
        skip == CASE Arm(s) = "3xnn" -> x = nn
                  [] Arm(s) = "4xnn" -> x # nn
                  [] Arm(s) = "5xy0" -> x = y
                  [] Arm(s) = "9xy0" -> x # y
                  [] Arm(s) = "ex9e" -> s.keys[x]
                  [] Arm(s) = "exa1" -> ~s.keys[x]
                  [] OTHER -> FALSE
    IN CASE Arm(s) = "nofetch" -> s.pc
         [] Arm(s) = "00ee" /\ s.stack # <<>> -> s.stack[Len(s.stack)]
         [] Arm(s) \in {"1nnn", "2nnn"} -> NNN(Fetched(s))
         [] Arm(s) = "bnnn" -> (NNN(Fetched(s)) + s.v[0]) % 65536
         [] skip -> (AfterFetch(s) + 2) % 65536
         [] OTHER -> AfterFetch(s)

IAfter(s) ==
    CASE Arm(s) = "annn" -> NNN(Fetched(s))
      [] Arm(s) = "fx1e" -> (s.i + s.v[OpX(s)]) % 4096
      [] Arm(s) = "fx29" -> (5 * s.v[OpX(s)]) % 4096
      [] Arm(s) \in {"fx55", "fx65"} -> (s.i + OpX(s) + 1) % 4096
      [] OTHER -> s.i

StackAfter(s) ==
    CASE Arm(s) = "2nnn" -> s.stack \o <<AfterFetch(s)>>
      [] Arm(s) = "00ee" /\ s.stack # <<>> -> [j \in 1..(Len(s.stack) - 1) |-> s.stack[j]]
      [] OTHER -> s.stack

KeyAwaitAfter(s) ==
    CASE Arm(s) = "fx0a" -> OpX(s)
      [] KeyFound(s) -> None
      [] OTHER -> s.key_await

\* the screen and v[0xF] after the 8 * n pixels of DXYN, in the order drawn:
\* pixel k - 1 is column w of row h; its column is counted from v[x] as it is
\* at that pixel, its row from v[y] as it was when row h began
DrawAfter(s) ==
    LET x == OpX(s)
        y == OpY(s)
        n == Nibble3(Fetched(s))
        reg(r, flag) == IF r = 15 THEN flag ELSE s.v[r]
        after[k \in 0..(8 * n)] ==
            IF k = 0 THEN [cells |-> s.vram, flag |-> 0, row |-> 0]
            ELSE LET before == after[k - 1]
                     h == (k - 1) \div 8
                     w == (k - 1) % 8
                     row == IF w = 0 THEN before.flag ELSE before.row
                     cell == << ((reg(x, before.flag) + w) % 256) % 64,
                                ((reg(y, row) + h) % 256) % 32 >>
                     set == Bit(read_byte(s, s.i + h), 7 - w) = 1
                     lit == cell \in before.cells
                 IN [cells |-> IF ~set THEN before.cells
                               ELSE IF lit THEN before.cells \ {cell}
                               ELSE before.cells \cup {cell},
                     flag |-> IF set /\ lit THEN 1 ELSE before.flag,
                     row |-> row]
    IN after[8 * n]

VramAfter(s) ==
    CASE Arm(s) = "00e0" -> {}
      [] Arm(s) = "dxyn" -> DrawAfter(s).cells
      [] OTHER -> s.vram

\* the registers after a step that is not CXNN: register r
VAfter(s) ==
    LET x == OpX(s)
        y == OpY(s)
        a == s.v[x]
        b == s.v[y]
        nn == NN(Fetched(s))
        \* v[x] = result, then v[0xF] = flag
        both(result, flag) ==
            [r \in 0..15 |-> IF r = 15 THEN flag ELSE IF r = x THEN result ELSE s.v[r]]
        one(result) == [r \in 0..15 |-> IF r = x THEN result ELSE s.v[r]]
    IN CASE KeyFound(s) ->
               [r \in 0..15 |-> IF r = s.key_await THEN LowestKey(s) ELSE s.v[r]]
         [] Arm(s) = "6xnn" -> one(nn)
         [] Arm(s) = "7xnn" -> one((a + nn) % 256)
         [] Arm(s) = "8xy0" -> one(b)
         [] Arm(s) = "8xy1" -> one(BitOr(a, b))
         [] Arm(s) = "8xy2" -> one(BitAnd(a, b))
         [] Arm(s) = "8xy3" -> one(BitXor(a, b))
         [] Arm(s) = "8xy4" -> both((a + b) % 256, IF a + b > 255 THEN 1 ELSE 0)
         [] Arm(s) = "8xy5" -> both((a - b) % 256, IF a < b THEN 0 ELSE 1)
         [] Arm(s) = "8xy7" -> both((b - a) % 256, IF b < a THEN 0 ELSE 1)
         \* the flag of a shift is taken from v[y] after v[x] is written
         [] Arm(s) = "8xy6" ->
               both(b \div 2, (IF x = y THEN b \div 2 ELSE b) % 2)
         [] Arm(s) = "8xye" ->
               both((2 * b) % 256, (IF x = y THEN (2 * b) % 256 ELSE b) \div 128)
         [] Arm(s) = "dxyn" -> [r \in 0..15 |-> IF r = 15 THEN DrawAfter(s).flag ELSE s.v[r]]
         [] Arm(s) = "fx07" -> one(s.delay)
         [] Arm(s) = "fx65" ->
               [r \in 0..15 |-> IF r <= x THEN read_byte(s, s.i + r) ELSE s.v[r]]
         [] OTHER -> s.v

\* the byte at address a after the step
ByteAfter(s, a) ==
    LET value == s.v[OpX(s)]
    IN CASE Arm(s) = "fx33" /\ a = s.i -> value \div 100
         [] Arm(s) = "fx33" /\ a = s.i + 1 -> (value \div 10) % 10
         [] Arm(s) = "fx33" /\ a = s.i + 2 -> value % 10
         [] Arm(s) = "fx55" /\ a \in s.i..(s.i + OpX(s)) -> s.v[a - s.i]
         [] OTHER -> read_byte(s, a)

\* t is the machine a step makes of s, but for the registers after CXNN
StepFrame(s, t) ==
    /\ t.panicked = StepFails(s)
    /\ ~t.panicked =>
          /\ t.pc = PcAfter(s)
          /\ t.i = IAfter(s)
          /\ t.stack = StackAfter(s)
          /\ t.key_await = KeyAwaitAfter(s)
          /\ IF Arm(s) \in {"fx33", "fx55"}
             THEN \A a \in 0..4095 : read_byte(t, a) = ByteAfter(s, a)
             ELSE t.memory = s.memory
          /\ t.vram = VramAfter(s)
          /\ t.keys = s.keys
          /\ t.delay = (IF Arm(s) = "fx15" THEN s.v[OpX(s)] ELSE s.delay)
          /\ t.beep = (IF Arm(s) = "fx18" THEN s.v[OpX(s)] ELSE s.beep)
          /\ Arm(s) # "cxnn" => t.v = VAfter(s)

\* C15 as stated: the machine after a step is determined by the machine (CPU,
\* peripherals, keypad) before it, for every opcode: it is the machine the
\* functions above give, and after CXNN v[x] is the same whatever byte is drawn
C15_Deterministic ==
    last_op = "emulate" =>
        /\ StepFrame(pre, State)
        /\ Arm(pre) = "cxnn" =>
              \A r \in RandomBytes :
                  v = [pre.v EXCEPT ![OpX(pre)] = BitAnd(r, NN(Fetched(pre)))]

\* C15 amended: the machine after a step is determined by the machine before it
\* for every opcode but CXNN: it is the machine the functions above give (both
\* copies fail when the step fails); after CXNN everything but v[x] is
\* determined, and v[x] is r & NN for a byte r the machine does not determine
C15_DeterministicButRandom ==
    last_op = "emulate" =>
        /\ StepFrame(pre, State)
        /\ Arm(pre) = "cxnn" =>
              \E r \in RandomBytes :
                  v = [pre.v EXCEPT ![OpX(pre)] = BitAnd(r, NN(Fetched(pre)))]

\* C0A5 has left 0x84 in v0, which is r & 0xA5 for r = 0x84 and not for r = 0xFF
C15_Witness ==
    /\ last_op = "emulate" /\ Arm(pre) = "cxnn"
    /\ NN(Fetched(pre)) = 165 /\ pre.v[OpX(pre)] = 0 /\ v[OpX(pre)] = 132
    /\ pc = (pre.pc + 2) % 4096

\* C16: Bus::new leaves the font table at 0x000..0x04F, rom[k] at 0x200 + k for
\* every k below the image's length (at most 0x1000 - 0x200), 0 at every other
\* address, every pixel unset, every key unpressed and delay = sound = 0
C16_Construction ==
    (last_op = "new" /\ Len(rom_data) <= 4096 - 512) =>
        /\ ~panicked
        /\ DOMAIN memory \subseteq 0..4095
        /\ \A a \in 0..4095 :
              read_byte(State, a) =
                 IF a < 80 THEN FONT4X5[a + 1]
                 ELSE IF a >= 512 /\ a - 512 < Len(rom_data) THEN rom_data[a - 512 + 1]
                 ELSE 0
        /\ \A x \in 0..63, y \in 0..31 : ~read_screen(State, x, y)
        /\ \A k \in 0..15 : ~keys[k]
        /\ delay = 0 /\ beep = 0

\* an image of the full 0xE00 bytes has been loaded, its last byte at 0xFFF
C16_Witness ==
    /\ last_op = "new"
    /\ Len(rom_data) = 3584
    /\ rom_data[3584] # 0 /\ read_byte(State, 4095) = rom_data[3584]
    /\ read_byte(State, 79) = 128 /\ read_byte(State, 80) = 0

\* C17: every keypad index EX9E and EXA1 pass to read_keypad is in 0..15: the
\* step completes without failure and skips (EX9E) exactly when key v[x] is
\* pressed, (EXA1) exactly when it is not
C17_KeypadIndexInRange ==
    (last_op = "emulate" /\ Arm(pre) \in {"ex9e", "exa1"}) =>
        LET key == pre.v[OpX(pre)]
        IN /\ key \in 0..15
           /\ ~panicked
           /\ pc = IF pre.keys[key] = (Arm(pre) = "ex9e")
                   THEN pre.pc + 4 ELSE pre.pc + 2

\* C18: 8XY6 leaves v[x] = (old v[y]) >> 1 when x is not 0xF, v[F] = the lowest
\* bit of the old v[y], and v[y] as it was when y is neither x nor 0xF, for all
\* registers x, y, x = y included
C18_ShiftRight ==
    (last_op = "emulate" /\ Arm(pre) = "8xy6") =>
        LET x == OpX(pre)
            y == OpY(pre)
        IN /\ (x # 15 => v[x] = pre.v[y] \div 2)
           /\ v[15] = pre.v[y] % 2
           /\ ((y # x /\ y # 15) => v[y] = pre.v[y])

\* C19: 8XYE leaves v[x] = ((old v[y]) << 1) mod 256 when x is not 0xF, v[F] =
\* the highest bit of the old v[y], and v[y] as it was when y is neither x nor
\* 0xF, for all registers x, y, x = y included
C19_ShiftLeft ==
    (last_op = "emulate" /\ Arm(pre) = "8xye") =>
        LET x == OpX(pre)
            y == OpY(pre)
        IN /\ (x # 15 => v[x] = (pre.v[y] * 2) % 256)
           /\ v[15] = pre.v[y] \div 128
           /\ ((y # x /\ y # 15) => v[y] = pre.v[y])

\* C20: after 8XY7, v[x] = (old v[y] - old v[x]) mod 256 when x is not 0xF,
\* v[F] = 0 if old v[y] < old v[x] (borrow), else 1, and v[y] is as it was when
\* y is neither x nor 0xF
C20_SubReversed ==
    (last_op = "emulate" /\ Arm(pre) = "8xy7") =>
        LET x == OpX(pre)
            y == OpY(pre)
        IN /\ (x # 15 => v[x] = (pre.v[y] - pre.v[x]) % 256)
           /\ v[15] = (IF pre.v[y] < pre.v[x] THEN 0 ELSE 1)
           /\ ((y # x /\ y # 15) => v[y] = pre.v[y])

\* 0x0A - 0x05 (v[x] = 5, v[y] = 10) has given 5 with v[F] = 1, and the same
\* register subtracted from itself gives 0 with v[F] = 1 elsewhere
C20_Witness ==
    /\ last_op = "emulate" /\ Arm(pre) = "8xy7"
    /\ OpX(pre) = 0 /\ OpY(pre) = 1 /\ pre.v[0] = 5 /\ pre.v[1] = 10
    /\ v[0] = 5 /\ v[1] = 10 /\ v[15] = 1

\* the flag an arithmetic or shift opcode fetched in s defines, from the operands
\* as they are in s: carry, not-borrow, or the bit shifted out
DefinedFlag(s) ==
    LET a == s.v[OpX(s)]
        b == s.v[OpY(s)]
    IN CASE Arm(s) = "8xy4" -> IF a + b > 255 THEN 1 ELSE 0
         [] Arm(s) = "8xy5" -> IF a < b THEN 0 ELSE 1
         [] Arm(s) = "8xy6" -> b % 2
         [] Arm(s) = "8xy7" -> IF b < a THEN 0 ELSE 1
         [] Arm(s) = "8xye" -> b \div 128

\* C21: after 8XY4, 8XY5, 8XY6, 8XY7 or 8XYE with x = 0xF and any y, v[F] holds
\* the flag the instruction defines, computed from the operands before the
\* instruction, never the arithmetic result
C21_FlagWinsInVF ==
    (last_op = "emulate" /\ Arm(pre) \in {"8xy4", "8xy5", "8xy6", "8xy7", "8xye"}
        /\ OpX(pre) = 15) => v[15] = DefinedFlag(pre)

\* C22: after DXYN with x and y other than 0xF the pixels toggled are exactly the
\* wrapped cells of the sprite's set bits, v[F] = 1 exactly when one of them was
\* set before, and i and memory are as they were
C22_Draw ==
    (last_op = "emulate" /\ Arm(pre) = "dxyn" /\ OpX(pre) # 15 /\ OpY(pre) # 15) =>
        /\ ~panicked
        /\ vram = (pre.vram \ SpriteCells(pre)) \cup (SpriteCells(pre) \ pre.vram)
        /\ v[15] = (IF SpriteCells(pre) \cap pre.vram # {} THEN 1 ELSE 0)
        /\ i = pre.i
        /\ memory = pre.memory

\* the cells of the sprite of a DXYN fetched in s, placed at the base <<bx, by>>
SpriteCellsAt(s, bx, by) ==
    LET n == Nibble3(Fetched(s))
    IN { <<(bx + w) % 64, (by + h) % 32>> :
           <<h, w>> \in { hw \in (0..(n - 1)) \X (0..7) :
                            Bit(read_byte(s, s.i + hw[1]), 7 - hw[2]) = 1 } }

\* C23: when DXYN names 0xF as its x or y register, the pixels it toggles are the
\* sprite placed at one base coordinate
C23_DrawSingleBase ==
    (last_op = "emulate" /\ Arm(pre) = "dxyn" /\ ~panicked
        /\ (OpX(pre) = 15 \/ OpY(pre) = 15)) =>
        \E bx \in 0..63, by \in 0..31 :
            vram = (pre.vram \ SpriteCellsAt(pre, bx, by))
                      \cup (SpriteCellsAt(pre, bx, by) \ pre.vram)

\* C24: 2NNN at address a pushes (a + 2) mod 0x1000 and sets pc = nnn; 00EE with
\* a non-empty stack removes the address pushed last and sets pc to it; so every
\* stack entry is the address after a call, and nested calls return in reverse
C24_CallReturnLifo ==
    /\ (last_op = "emulate" /\ Arm(pre) = "2nnn") =>
          /\ stack = Append(pre.stack, (pre.pc + 2) % 4096)
          /\ pc = NNN(Fetched(pre))
          /\ ~panicked
    /\ (last_op = "emulate" /\ Arm(pre) = "00ee" /\ pre.stack # <<>>) =>
          /\ pc = pre.stack[Len(pre.stack)]
          /\ stack = SubSeq(pre.stack, 1, Len(pre.stack) - 1)
          /\ ~panicked
    /\ \A j \in 1..Len(stack) :
          Decode(read_byte(State, (stack[j] - 2) % 4096) * 256
                    + read_byte(State, (stack[j] - 1) % 4096)) = "2nnn"

\* the third return of three nested calls has resumed after the first call, at
\* 0x202, with the stack empty again
C24_Witness ==
    /\ last_op = "emulate" /\ Arm(pre) = "00ee"
    /\ pre.pc = 520 /\ pre.stack = <<514>>
    /\ pc = 514 /\ stack = <<>>

\* C25: a 2NNN executed with 16 or more return addresses on the stack pushes one
\* more and keeps every earlier entry, and the returns pop all of them in order
C25_StackUncapped ==
    /\ (last_op = "emulate" /\ Arm(pre) = "2nnn" /\ Len(pre.stack) >= 16) =>
          /\ ~panicked
          /\ Len(stack) = Len(pre.stack) + 1
          /\ \A j \in 1..Len(pre.stack) : stack[j] = pre.stack[j]
          /\ stack[Len(stack)] = (pre.pc + 2) % 4096
    /\ (last_op = "emulate" /\ Arm(pre) = "00ee" /\ Len(pre.stack) >= 16) =>
          /\ pc = pre.stack[Len(pre.stack)]
          /\ stack = SubSeq(pre.stack, 1, Len(pre.stack) - 1)

\* the 17th return of 17 nested calls has resumed after the first call
C25_Witness ==
    /\ last_op = "emulate" /\ Arm(pre) = "00ee"
    /\ v[0] = 17 /\ pre.stack = <<516>>
    /\ pc = 516 /\ stack = <<>>

\* whether the conditional skip fetched in s is taken
SkipCondition(s) ==
    LET nn == NN(Fetched(s))
    IN CASE Arm(s) = "3xnn" -> s.v[OpX(s)] = nn
         [] Arm(s) = "4xnn" -> s.v[OpX(s)] # nn
         [] Arm(s) = "5xy0" -> s.v[OpX(s)] = s.v[OpY(s)]
         [] Arm(s) = "9xy0" -> s.v[OpX(s)] # s.v[OpY(s)]

\* C26: a step that executes 3XNN, 4XNN, 5XY0 or 9XY0 at address a leaves
\* pc = (a + 4) mod 0x1000 when the condition holds and (a + 2) mod 0x1000 when
\* it does not, and changes nothing else
C26_ConditionalSkip ==
    (last_op = "emulate" /\ Arm(pre) \in {"3xnn", "4xnn", "5xy0", "9xy0"}) =>
        State = [pre EXCEPT !.pc = (pre.pc + IF SkipCondition(pre) THEN 4 ELSE 2) % 4096]

\* C27: a step outside key-wait reads memory[pc] * 256 + memory[(pc + 1) mod
\* 0x1000], advances pc by 2 modulo 0x1000 and then executes the instruction, for
\* every pc in 0..0xFFF: the step completes, with pc = (old pc + 2) mod 0x1000
\* when the opcode is not one that sets pc
C27_FetchWraps ==
    (last_op = "emulate" /\ pre.key_await = None /\ pre.pc \in 0..4095) =>
        /\ Fetched(pre) = read_byte(pre, pre.pc) * 256
                             + read_byte(pre, (pre.pc + 1) % 4096)
        /\ Arm(pre) # "trace"
        /\ (Arm(pre) \notin ControlArms /\ ~panicked) => pc = (pre.pc + 2) % 4096

\* C28: i is at most 0xFFF in every reachable state: only ANNN (i = nnn), FX1E,
\* FX29, FX55, FX65 (their result masked to 12 bits) and reset (i = 0) change it
C28_IndexMasked ==
    /\ i \in 0..4095
    /\ i # pre.i =>
          \/ last_op = "reset" /\ i = 0
          \/ /\ last_op = "emulate"
             /\ Arm(pre) \in {"annn", "fx1e", "fx29", "fx55", "fx65"}
             /\ i = CASE Arm(pre) = "annn" -> NNN(Fetched(pre))
                      [] Arm(pre) = "fx1e" -> (pre.i + pre.v[OpX(pre)]) % 4096
                      [] Arm(pre) = "fx29" -> (pre.v[OpX(pre)] * 5) % 4096
                      [] OTHER -> (pre.i + OpX(pre) + 1) % 4096

\* FX1E with i = 0xFFF and v[x] = 0xFF has left i = 0x0FE
C28_Witness ==
    /\ last_op = "emulate" /\ Arm(pre) = "fx1e"
    /\ pre.i = 4095 /\ pre.v[OpX(pre)] = 255
    /\ i = 254

\* C29: a step in key-wait for register x with keys pressed stores in v[x] the
\* smallest pressed key index
C29_SmallestKey ==
    (last_op = "emulate" /\ pre.key_await # None /\ PressedKeys(pre) # {}) =>
        /\ pre.keys[v[pre.key_await]]
        /\ \A k \in 0..15 : pre.keys[k] => v[pre.key_await] <= k

\* with two keys pressed at once the wait for v3, which held 0xFF, stored the
\* smaller index
C29_Witness ==
    /\ last_op = "emulate" /\ pre.key_await = 3 /\ pre.v[3] = 255
    /\ Cardinality(PressedKeys(pre)) >= 2
    /\ \E k \in PressedKeys(pre) : k > v[3]

\* C30: a step made in key-wait fetches and executes nothing: pc, i, the stack,
\* memory, video, keypad and both counters are as before; only v[x] of the
\* awaited register and the latch can change, and only when a key is pressed
C30_KeyWaitFrame ==
    (last_op = "emulate" /\ pre.key_await # None) =>
        /\ pc = pre.pc /\ i = pre.i /\ stack = pre.stack
        /\ memory = pre.memory /\ vram = pre.vram /\ keys = pre.keys
        /\ delay = pre.delay /\ beep = pre.beep
        /\ ~panicked
        /\ \A r \in 0..15 : r # pre.key_await => v[r] = pre.v[r]
        /\ PressedKeys(pre) = {} => (v = pre.v /\ key_await = pre.key_await)

\* a step in key-wait with a key pressed: v3 and the latch changed, and the 7301
\* at pc was not executed
C30_Witness ==
    /\ last_op = "emulate" /\ pre.key_await = 3 /\ PressedKeys(pre) # {}
    /\ key_await = None /\ v[3] # pre.v[3]
    /\ pc = 516 /\ Fetched(State) = 29441

\* C31: FX33 writes the hundreds digit of v[x] at i, the tens digit at i + 1 and
\* the ones digit at i + 2, each in 0..9 and together worth v[x], and changes no
\* other memory byte, no register and not i
C31_Bcd ==
    (last_op = "emulate" /\ Arm(pre) = "fx33") =>
        LET value == pre.v[OpX(pre)]
            h == read_byte(State, pre.i)
            t == read_byte(State, pre.i + 1)
            o == read_byte(State, pre.i + 2)
        IN /\ ~panicked
           /\ h \in 0..9 /\ t \in 0..9 /\ o \in 0..9
           /\ 100 * h + 10 * t + o = value
           /\ \A a \in (0..4095) \ {pre.i, pre.i + 1, pre.i + 2} :
                 read_byte(State, a) = read_byte(pre, a)
           /\ v = pre.v /\ i = pre.i

\* C32: FX1E leaves i = (old i + v[x]) & 0xFFF and every register, v[0xF]
\* included, as it was
C32_AddToIndex ==
    (last_op = "emulate" /\ Arm(pre) = "fx1e") =>
        /\ i = (pre.i + pre.v[OpX(pre)]) % 4096
        /\ v = pre.v
        /\ State = [pre EXCEPT !.pc = (pre.pc + 2) % 4096, !.i = i]

\* 0xFFF + 1 has given 0x000 and v[0xF] still holds its 1
C32_Witness ==
    /\ last_op = "emulate" /\ Arm(pre) = "fx1e"
    /\ pre.i = 4095 /\ pre.v[OpX(pre)] = 1 /\ OpX(pre) = 0
    /\ i = 0 /\ v[15] = 1

\* C33: FX29 sets i = (v[x] * 5) & 0xFFF; for a digit d = v[x] in 0..15 the five
\* bytes at i..i+4 are the glyph of d (the d-th five bytes of the font table)
\* while the program has not written into 0x000..0x04F
C33_GlyphAddress ==
    (last_op = "emulate" /\ Arm(pre) = "fx29") =>
        LET d == pre.v[OpX(pre)]
        IN /\ i = (d * 5) % 4096
           /\ (d \in 0..15 /\ memory = LoadedMemory(rom_data).bytes) =>
                 \A k \in 0..4 : read_byte(State, i + k) = FONT4X5[5 * d + k + 1]

\* FX29 for the digit 0xA has left i at the glyph F0 90 F0 90 90
C33_Witness ==
    /\ last_op = "emulate" /\ Arm(pre) = "fx29"
    /\ pre.v[OpX(pre)] = 10 /\ i = 50
    /\ [k \in 0..4 |-> read_byte(State, i + k)] = [k \in 0..4 |-> <<240, 144, 240, 144, 144>>[k + 1]]

\* C34: with n the value the last FX15 wrote and k the delay ticks since,
\* however they interleave with the steps, FX07 reads max(n - k, 0)
C34_ReadDelay ==
    (last_op = "emulate" /\ Arm(pre) = "fx07") =>
        /\ v[OpX(pre)] = delay_obs.n - delay_obs.k
        /\ delay_obs.k \in 0..delay_obs.n

\* FX15 wrote 3, two ticks followed, and an FX07 read 1 after an earlier one
\* had read more
C34_Witness ==
    /\ last_op = "emulate" /\ Arm(pre) = "fx07"
    /\ delay_obs = [n |-> 3, k |-> 2]
    /\ pre.v[OpX(pre)] > 1 /\ v[OpX(pre)] = 1

\* C35: a delay tick changes only the delay counter, a sound tick only the sound
\* counter, FX15 only the delay counter and FX18 only the sound counter (and pc)
C35_CountersIndependent ==
    /\ last_op = "delay_update" => State = [pre EXCEPT !.delay = delay]
    /\ last_op = "beeper_update" => State = [pre EXCEPT !.beep = beep]
    /\ (last_op = "emulate" /\ Arm(pre) = "fx15") =>
          State = [pre EXCEPT !.pc = (pre.pc + 2) % 4096, !.delay = pre.v[OpX(pre)]]
    /\ (last_op = "emulate" /\ Arm(pre) = "fx18") =>
          State = [pre EXCEPT !.pc = (pre.pc + 2) % 4096, !.beep = pre.v[OpX(pre)]]

\* FX15 has written 3 while the sound counter kept its 0 (FX18 comes next)
C35_Witness ==
    /\ last_op = "emulate" /\ Arm(pre) = "fx15"
    /\ delay = 3 /\ beep = 0 /\ pre.delay = 0

\* C36: with n the value the last FX18 wrote (0 at power-on) and no later write,
\* is_beeping is true after each of the next n sound ticks and false after tick
\* n + 1 and every later one
C36_BeepForNTicks ==
    last_op = "beeper_update" => (is_beeping <=> sound_obs.k <= sound_obs.n)

\* the third tick after FX18 wrote 3: the counter is 0 and the query is true
C36_Witness ==
    /\ last_op = "beeper_update"
    /\ sound_obs = [n |-> 3, k |-> 3]
    /\ beep = 0 /\ is_beeping

\* C37: a step changes memory only by FX33 and FX55, video only by 00E0 and
\* DXYN, the delay counter only by FX15, the sound counter only by FX18 and the
\* keypad never; 00E0 unsets every pixel and changes nothing else but pc
C37_PeripheralOwners ==
    last_op = "emulate" =>
        /\ memory # pre.memory => Arm(pre) \in {"fx33", "fx55"}
        /\ vram # pre.vram => Arm(pre) \in {"00e0", "dxyn"}
        /\ delay # pre.delay => Arm(pre) = "fx15"
        /\ beep # pre.beep => Arm(pre) = "fx18"
        /\ keys = pre.keys
        /\ Arm(pre) = "00e0" =>
              /\ \A x \in 0..63, y \in 0..31 : ~read_screen(State, x, y)
              /\ State = [pre EXCEPT !.pc = (pre.pc + 2) % 4096, !.vram = vram]

\* 00E0 has cleared a screen that showed the glyph 0
C37_Witness ==
    /\ last_op = "emulate" /\ Arm(pre) = "00e0"
    /\ Cardinality(pre.vram) = 14 /\ vram = {}

\* C39: every address on the call stack is below 0x1000 in every reachable
\* state, so a 00EE that pops an entry leaves pc a valid fetch address
C39_StackAddressesValid ==
    /\ \A j \in 1..Len(stack) : stack[j] \in 0..4095
    /\ (last_op = "emulate" /\ Arm(pre) = "00ee" /\ pre.stack # <<>>) => InMemory(pc)

\* the call in the last two bytes of memory has pushed 0x000
C39_Witness ==
    /\ last_op = "emulate" /\ Arm(pre) = "2nnn"
    /\ pre.pc = 4094 /\ stack = <<0>>

\* some key of the keypad is pressed
AnyKeyPressed == \E k \in 0..15 : keys[k]

\* the step just made found a key and cleared the latch
LeftKeyWait == last_op = "emulate" /\ pre.key_await # None /\ key_await = None

\* the step just made fetched an instruction and moved pc
PcAdvanced == last_op = "emulate" /\ pre.key_await = None /\ pc # pre.pc

\* C38: with steps and ticks kept happening: a CPU in key-wait with a key pressed
\* leaves key-wait unless the key is released before a step sees it, and once a
\* step has cleared the latch pc advances; while no key is pressed steps keep
\* the CPU in key-wait with pc where it is, and the ticks still count both
\* counters down to 0
C38_KeyWaitProgress ==
    /\ (key_await # None /\ AnyKeyPressed) ~> (key_await = None \/ ~AnyKeyPressed)
    /\ LeftKeyWait ~> PcAdvanced
    /\ [][(key_await # None /\ ~AnyKeyPressed /\ last_op' # "reset")
             => (key_await' = key_await /\ pc' = pc)]_vars
    /\ [][(key_await # None /\ last_op' = "delay_update")
             => delay' = (IF delay > 0 THEN delay - 1 ELSE 0)]_vars
    /\ [][(key_await # None /\ last_op' = "beeper_update")
             => beep' = (IF beep > 0 THEN beep - 1 ELSE 0)]_vars
    /\ (key_await # None /\ delay > 0) ~> (delay = 0 \/ key_await = None)
    /\ (key_await # None /\ beep > 0) ~> (beep = 0 \/ key_await = None)

\* key 5 was seen by a step in key-wait, the 7301 after the FX0A has run, and
\* both counters had counted down to 0 during the wait
C38_Witness ==
    /\ last_op = "emulate" /\ key_await = None
    /\ pc = 522 /\ v[3] = 6
    /\ delay = 0 /\ beep = 0 /\ delay_obs.n = 3

TypeOK ==
    /\ pc \in 0..(U16 - 1)
    /\ i \in 0..(U16 - 1)
    /\ \A x \in 0..15 : v[x] \in 0..255
    /\ key_await \in {None} \cup 0..15
    /\ delay \in 0..255
    /\ beep \in 0..255

=============================================================================
